---- MODULE Spec2Model ----
(***************************************************************************)
(* Model of store_picker.py: the quota allocator                           *)
(* alloc_proportional_with_min and the stratified sampler pick_stores.     *)
(*                                                                         *)
(* A mapping (Python dict) is a function together with the sequence of its *)
(* keys in insertion order.  A DataFrame is a sequence of rows.  The       *)
(* allocator is modelled statement by statement, its two round-robin loops *)
(* one iteration per step; pick_stores calls it and continues when it      *)
(* returns.                                                                *)
(*                                                                         *)
(* Lines 85-86 compute floor(remaining * (cap_rem / remaining_total)) in   *)
(* binary floating point (IEEE 754 doubles, round to nearest even): the    *)
(* quotient is rounded to 53 significant bits and so is the product.       *)
(* FloorOfProduct computes that value with integers: when the exact        *)
(* product is a whole number q and the rounded quotient lies below the     *)
(* exact one by more than half the gap between q and the double before it, *)
(* the float product is that double and its floor is q - 1 (22 * (15 / 22) *)
(* floors to 14); in every other case the floor is the exact quotient.     *)
(*                                                                         *)
(* pick_stores is modelled for a dataframe that has the identifier column  *)
(* and one stratification column, so the checks of lines 133-139 pass.     *)
(***************************************************************************)
EXTENDS Integers, Sequences, FiniteSets, TLC

\* ------------------------------------------------------------------ bounds
MaxKeys == 3
MaxCap == 5
MaxTotal == 7
MaxMin == 3
MaxUnits == 7
MaxBigCap == 15
MaxBigTotal == 23

\* Keys of the capacity map, in the order they may be inserted.
AllKeys == <<"A", "B", "UNKNOWN", "C", "D", "E">>

VARIABLES
    total,              \* argument total
    capacities,         \* argument capacities: key -> int
    cap_order,          \* insertion order of the keys of capacities
    min_per_stratum,    \* argument min_per_stratum
    keys,               \* local keys (after zero-capacity strata are dropped)
    alloc,              \* local alloc: key -> int
    sorted_keys,        \* local sorted_keys
    i,                  \* loop counter of the current round-robin loop
    remaining,          \* local remaining (line 68)
    remaining_capacity, \* local remaining_capacity (line 73)
    extra_alloc,        \* local extra_alloc
    leftover,           \* local leftover
    quotas,             \* the returned map: key -> int
    quota_keys,         \* insertion order of the keys of the returned map
    pc,                 \* position in the code
    ret,                \* where alloc_proportional_with_min returns to
    df,                 \* pick_stores: the dataframe, a sequence of rows
    stratum_key,        \* pick_stores: the column _stratum_key of df
    target_n,           \* pick_stores: argument target_n
    total_target,       \* pick_stores: local total_target
    selected,           \* pick_stores: selected, row of df -> times it occurs
    pos                 \* pick_stores: position of the loop over quotas.items()

allocVars == <<total, capacities, cap_order, min_per_stratum, keys, alloc,
               sorted_keys, i, remaining, remaining_capacity, extra_alloc,
               leftover, quotas, quota_keys>>

pickVars == <<df, stratum_key, target_n, total_target, selected, pos>>

vars == <<allocVars, pc, ret, pickVars>>

\* ---------------------------------------------------------------- helpers
Min(a, b) == IF a <= b THEN a ELSE b

Range(s) == {s[j] : j \in 1..Len(s)}

EmptyMap == [k \in {} |-> 0]

RECURSIVE SumOver(_, _)
\* sum(f[k] for k in S)
SumOver(f, S) ==
    IF S = {} THEN 0
    ELSE LET k == CHOOSE x \in S : TRUE
         IN  f[k] + SumOver(f, S \ {k})

\* sum(m.values())
SumValues(m) == SumOver(m, DOMAIN m)

\* sorted(s, key=lambda k: f[k], reverse=True): descending, and stable (equal
\* elements keep their original relative order).
SortedDesc(s, f) ==
    LET n == Len(s)
        Rank(j) == Cardinality({h \in 1..n :
                        \/ f[s[h]] > f[s[j]]
                        \/ f[s[h]] = f[s[j]] /\ h < j}) + 1
    IN  [p \in 1..n |-> s[CHOOSE j \in 1..n : Rank(j) = p]]

\* {k: v for k, v in capacities.items() if v > 0}, as the list of its keys
DropZeroKeep(order, caps) == order
DropZero(order, caps) == SelectSeq(order, LAMBDA k : caps[k] > 0)

\* the bound on the iterations of both round-robin loops: len(sorted_keys) * 2
LoopLimitThree(n) == n * 3
LoopLimitOne(n) == 1
LoopLimit(n) == n * 2

\* min(base, capacities[k]) with base = total // len(keys)
EvenShare(tot, n, cap) == Min(tot \div n, cap)

\* min(min_per_stratum, capacities[k])
FloorQuotaUncapped(m, cap) == m
FloorQuotaNone(m, cap) == 0
FloorQuota(m, cap) == Min(m, cap)

\* the number of bits after the leading one in the significand of a float
MantissaBits == 52

RECURSIVE Pow2(_)
\* 2 ** n
Pow2(n) == IF n <= 0 THEN 1 ELSE 2 * Pow2(n - 1)

RECURSIVE ScaleUp(_, _)
\* the least j with c * 2**j >= t
ScaleUp(c, t) == IF c >= t THEN 0 ELSE 1 + ScaleUp(2 * c, t)

RECURSIVE ScaleDen(_, _)
\* the greatest d = t * 2**j with d <= c, or t when c < t
ScaleDen(c, d) == IF 2 * d <= c THEN ScaleDen(c, 2 * d) ELSE d

RECURSIVE Doubled(_, _, _)
\* the remainder of the long division by d after n more binary digits
Doubled(r, d, n) == IF n = 0 THEN r ELSE Doubled((2 * r) % d, d, n - 1)

RECURSIVE CeilLog2From(_, _)
CeilLog2From(q, e) == IF Pow2(e) >= q THEN e ELSE CeilLog2From(q, e + 1)

\* the least e >= 0 with 2**e >= q
CeilLog2(q) == CeilLog2From(q, 0)

\* int(math.floor(rem * (cap_rem / rem_total))) in float arithmetic, for the
\* positive arguments line 85 is reached with.  cap_rem / rem_total is
\* rounded to a float: r is the remainder of its long division after the 53
\* significant bits, so the float is below the exact quotient iff
\* 0 < 2 * r < d.  rem times that float is then rounded again: it falls to the
\* float just below the whole number q iff its distance rem * error to q is
\* more than half the gap below q.
FloorOfProduct(rem, cap_rem, rem_total) ==
    LET q == (rem * cap_rem) \div rem_total
    IN  IF (rem * cap_rem) % rem_total # 0
           \/ rem <= 0 \/ cap_rem <= 0 \/ rem_total <= 0
        THEN q
        ELSE LET j == ScaleUp(cap_rem, rem_total)
                 d == ScaleDen(cap_rem, rem_total)
                 r == Doubled(cap_rem * Pow2(j) - d, d, MantissaBits)
             IN  IF r = 0 \/ 2 * r >= d THEN q
                 ELSE IF 4 * rem * r > rem_total * Pow2(CeilLog2(q) + j)
                      THEN q - 1
                      ELSE q

\* min(int(math.floor(remaining * (cap_rem / remaining_total))), cap_rem)
ProportionalAddCeil(rem, cap_rem, rem_total) ==
    Min((rem * cap_rem + rem_total - 1) \div rem_total, cap_rem)
ProportionalAdd(rem, cap_rem, rem_total) ==
    Min(FloorOfProduct(rem, cap_rem, rem_total), cap_rem)

\* ------------------------------------------- alloc_proportional_with_min
\* return of the allocator with result map m whose keys are ordered as order
Return(m, order) ==
    /\ quotas' = m
    /\ quota_keys' = order
    /\ pc' = ret

\* lines 35-37: no keys, or total <= 0
AllocTrivial ==
    /\ pc = "alloc"
    /\ (cap_order = <<>> \/ total <= 0)
    /\ Return([k \in Range(cap_order) |-> 0], cap_order)
    /\ UNCHANGED <<total, capacities, cap_order, min_per_stratum, keys, alloc,
                   sorted_keys, i, remaining, remaining_capacity, extra_alloc,
                   leftover, ret, pickVars>>

\* lines 39-47: every stratum has zero capacity
AllocNoKeys ==
    /\ pc = "alloc"
    /\ ~(cap_order = <<>> \/ total <= 0)
    /\ LET ks == DropZero(cap_order, capacities)
       IN  /\ (ks = <<>> \/ SumOver(capacities, Range(ks)) = 0)
           /\ keys' = ks
           /\ IF ks = <<>> THEN Return(EmptyMap, <<>>)
                           ELSE Return([k \in Range(ks) |-> 0], ks)
    /\ UNCHANGED <<total, capacities, cap_order, min_per_stratum, alloc,
                   sorted_keys, i, remaining, remaining_capacity, extra_alloc,
                   leftover, ret, pickVars>>

\* lines 39-57: total is too small for the minimum everywhere
AllocFallback ==
    /\ pc = "alloc"
    /\ ~(cap_order = <<>> \/ total <= 0)
    /\ LET ks == DropZero(cap_order, capacities)
       IN  /\ ks # <<>>
           /\ SumOver(capacities, Range(ks)) # 0
           /\ total < Len(ks) * min_per_stratum
           /\ keys' = ks
           /\ alloc' = [k \in Range(ks) |->
                            EvenShare(total, Len(ks), capacities[k])]
           /\ sorted_keys' = SortedDesc(ks, capacities)
    /\ i' = 0
    /\ pc' = "fill"
    /\ UNCHANGED <<total, capacities, cap_order, min_per_stratum, remaining,
                   remaining_capacity, extra_alloc, leftover, quotas,
                   quota_keys, ret, pickVars>>

\* lines 59-63: one iteration of the fill loop
FillStep ==
    /\ pc = "fill"
    /\ SumValues(alloc) < total
    /\ i < LoopLimit(Len(sorted_keys))
    /\ IF Len(sorted_keys) = 0
       THEN pc' = "raised" /\ UNCHANGED <<alloc, i>>
       ELSE LET k == sorted_keys[(i % Len(sorted_keys)) + 1]
            IN  /\ alloc' = IF alloc[k] < capacities[k]
                            THEN [alloc EXCEPT ![k] = @ + 1]
                            ELSE alloc
                /\ i' = i + 1
                /\ pc' = "fill"
    /\ UNCHANGED <<total, capacities, cap_order, min_per_stratum, keys,
                   sorted_keys, remaining, remaining_capacity, extra_alloc,
                   leftover, quotas, quota_keys, ret, pickVars>>

\* lines 59, 64: the fill loop ends
FillReturn ==
    /\ pc = "fill"
    /\ ~(SumValues(alloc) < total /\ i < LoopLimit(Len(sorted_keys)))
    /\ Return(alloc, keys)
    /\ UNCHANGED <<total, capacities, cap_order, min_per_stratum, keys, alloc,
                   sorted_keys, i, remaining, remaining_capacity, extra_alloc,
                   leftover, ret, pickVars>>

\* lines 39-76: the minimum for each stratum, and the two early returns
AllocFloor ==
    /\ pc = "alloc"
    /\ ~(cap_order = <<>> \/ total <= 0)
    /\ LET ks == DropZero(cap_order, capacities)
           al == [k \in Range(ks) |-> FloorQuota(min_per_stratum, capacities[k])]
           rem == total - SumValues(al)
           rc == [k \in Range(ks) |-> capacities[k] - al[k]]
           rt == SumOver(rc, {k \in Range(ks) : rc[k] > 0})
       IN  /\ ks # <<>>
           /\ SumOver(capacities, Range(ks)) # 0
           /\ ~(total < Len(ks) * min_per_stratum)
           /\ keys' = ks
           /\ alloc' = al
           /\ remaining' = rem
           /\ IF rem <= 0
              THEN /\ Return(al, ks)
                   /\ UNCHANGED remaining_capacity
              ELSE /\ remaining_capacity' = rc
                   /\ IF rt <= 0
                      THEN Return(al, ks)
                      ELSE /\ pc' = "proportional"
                           /\ UNCHANGED <<quotas, quota_keys>>
    /\ UNCHANGED <<total, capacities, cap_order, min_per_stratum, sorted_keys,
                   i, extra_alloc, leftover, ret, pickVars>>

\* lines 74, 78-98: the proportional pass and the set-up of the leftover pass
Proportional ==
    /\ pc = "proportional"
    /\ LET rt == SumOver(remaining_capacity,
                         {k \in Range(keys) : remaining_capacity[k] > 0})
           ex == [k \in Range(keys) |->
                    IF remaining_capacity[k] <= 0 THEN 0
                    ELSE ProportionalAdd(remaining, remaining_capacity[k], rt)]
           lo == remaining - SumValues(ex)
       IN  IF rt = 0
           THEN pc' = "raised" /\ UNCHANGED <<extra_alloc, leftover,
                                              sorted_keys, i>>
           ELSE /\ extra_alloc' = ex
                /\ leftover' = lo
                /\ IF lo > 0
                   THEN /\ sorted_keys' = SortedDesc(keys,
                               [k \in Range(keys) |->
                                    remaining_capacity[k] - ex[k]])
                        /\ i' = 0
                        /\ pc' = "leftover"
                   ELSE /\ pc' = "merge"
                        /\ UNCHANGED <<sorted_keys, i>>
    /\ UNCHANGED <<total, capacities, cap_order, min_per_stratum, keys, alloc,
                   remaining, remaining_capacity, quotas, quota_keys, ret, pickVars>>

\* lines 99-104: one iteration of the leftover loop
LeftoverStep ==
    /\ pc = "leftover"
    /\ leftover > 0
    /\ i < LoopLimit(Len(sorted_keys))
    /\ IF Len(sorted_keys) = 0
       THEN pc' = "raised" /\ UNCHANGED <<extra_alloc, leftover, i>>
       ELSE LET k == sorted_keys[(i % Len(sorted_keys)) + 1]
            IN  /\ IF extra_alloc[k] < remaining_capacity[k]
                   THEN /\ extra_alloc' = [extra_alloc EXCEPT ![k] = @ + 1]
                        /\ leftover' = leftover - 1
                   ELSE UNCHANGED <<extra_alloc, leftover>>
                /\ i' = i + 1
                /\ pc' = "leftover"
    /\ UNCHANGED <<total, capacities, cap_order, min_per_stratum, keys, alloc,
                   sorted_keys, remaining, remaining_capacity, quotas,
                   quota_keys, ret, pickVars>>

\* line 99: the leftover loop ends
LeftoverExit ==
    /\ pc = "leftover"
    /\ ~(leftover > 0 /\ i < LoopLimit(Len(sorted_keys)))
    /\ pc' = "merge"
    /\ UNCHANGED <<allocVars, ret, pickVars>>

\* lines 106-109: add the extras and return
Merge ==
    /\ pc = "merge"
    /\ alloc' = [k \in Range(keys) |-> alloc[k] + extra_alloc[k]]
    /\ Return(alloc', keys)
    /\ UNCHANGED <<total, capacities, cap_order, min_per_stratum, keys,
                   sorted_keys, i, remaining, remaining_capacity, extra_alloc,
                   leftover, ret, pickVars>>

AllocNext ==
    \/ AllocTrivial
    \/ AllocNoKeys
    \/ AllocFallback
    \/ FillStep
    \/ FillReturn
    \/ AllocFloor
    \/ Proportional
    \/ LeftoverStep
    \/ LeftoverExit
    \/ Merge

\* The locals before the allocator has assigned them.
LocalsInit ==
    /\ keys = <<>>
    /\ alloc = EmptyMap
    /\ sorted_keys = <<>>
    /\ i = 0
    /\ remaining = 0
    /\ remaining_capacity = EmptyMap
    /\ extra_alloc = EmptyMap
    /\ leftover = 0
    /\ quotas = EmptyMap
    /\ quota_keys = <<>>

\* A call of alloc_proportional_with_min: any arguments with few keys and
\* small numbers, or two strata and a total large enough for the float
\* product of line 86 to fall below the exact one.
InitAlloc ==
    /\ \/ /\ \E n \in 0..MaxKeys :
                /\ cap_order = SubSeq(AllKeys, 1, n)
                /\ capacities \in [Range(SubSeq(AllKeys, 1, n)) -> 0..MaxCap]
          /\ total \in -1..MaxTotal
          /\ min_per_stratum \in 0..MaxMin
       \/ /\ cap_order = SubSeq(AllKeys, 1, 2)
          /\ capacities \in [Range(SubSeq(AllKeys, 1, 2)) -> 0..MaxBigCap]
          /\ total \in (MaxTotal + 1)..MaxBigTotal
          /\ min_per_stratum \in 0..1
    /\ LocalsInit
    /\ pc = "alloc"
    /\ ret = "done"
    /\ df = <<>>
    /\ stratum_key = <<>>
    /\ target_n = 0
    /\ total_target = 0
    /\ selected = <<>>
    /\ pos = 0

SpecAlloc == InitAlloc /\ [][AllocNext]_vars

\* ------------------------------------------------------------ pick_stores
\* An identifier is a Python int, a Python str of digits, or NaN (missing);
\* val is the number it shows.
NaN == [kind |-> "nan", val |-> 0]
IntId(n) == [kind |-> "int", val |-> n]
StrId(n) == [kind |-> "str", val |-> n]

\* astype(str), lines 197: the int 3 and the str "3" both become the str "3"
AsStr(id) == [kind |-> "str", val |-> id.val]

\* The raw values of the stratification column; "nan" is a missing value.
RawValues == <<"a", " b", "nan">>

\* lines 146-152: fillna("UNKNOWN"), astype(str), strip, upper
Normalise(v) ==
    CASE v = "nan" -> "UNKNOWN"
      [] v = "a" -> "A"
      [] v = " b" -> "B"

\* df.dropna(subset=[id_col]), line 142
DropNa(d) == SelectSeq(d, LAMBDA row : row.id # NaN)

\* the rows of stratum key: df[df["_stratum_key"] == key], line 177
StratumRows(col, key) == {r \in 1..Len(col) : col[r] = key}

\* value_counts().to_dict(), lines 161-162: the number of rows per key
ValueCounts(col) ==
    [k \in Range(col) |-> Cardinality(StratumRows(col, k))]

\* the orders value_counts may list its keys in: descending counts, equal
\* counts in either order
CountOrders(counts) ==
    {o \in [1..Cardinality(DOMAIN counts) -> DOMAIN counts] :
        /\ \A a, b \in DOMAIN o : a # b => o[a] # o[b]
        /\ \A a, b \in DOMAIN o : a < b => counts[o[a]] >= counts[o[b]]}

\* len(selected)
SelectedLen(sel) == SumValues(sel)

\* the rows in selected
SelectedRows(sel) == {r \in DOMAIN sel : sel[r] > 0}

\* pd.concat([selected, rows]): each drawn row once more
Concat(sel, rows) ==
    [r \in DOMAIN sel |-> IF r \in rows THEN sel[r] + 1 ELSE sel[r]]

\* line 175: a stratum without quota is skipped
SkipStratumOne(quota) == quota <= 1
SkipStratum(quota) == quota <= 0

\* lines 196-198: the rows whose identifier, as text, is not selected yet
RemainingPoolAll(d, sel) == 1..Len(d)
RemainingPool(d, sel) ==
    {r \in 1..Len(d) :
        AsStr(d[r].id) \notin {AsStr(d[q].id) : q \in SelectedRows(sel)}}

\* sample(n=n) without replacement: the sets of n of the rows
Samples(rows, n) == {S \in SUBSET rows : Cardinality(S) = n}

\* lines 133-169: drop rows without an ID, standardise the stratification
\* column, count the strata, clamp the target and call the allocator
Prepare ==
    /\ pc = "pick_stores"
    /\ LET d == DropNa(df)
           col == [r \in 1..Len(d) |-> Normalise(d[r].attr)]
           counts == ValueCounts(col)
       IN  /\ df' = d
           /\ stratum_key' = col
           /\ capacities' = counts
           /\ cap_order' \in CountOrders(counts)
           /\ total_target' = Min(target_n, Len(d))
           /\ total' = Min(target_n, Len(d))
           /\ selected' = [r \in 1..Len(d) |-> 0]
    /\ pos' = 1
    /\ pc' = "alloc"
    /\ UNCHANGED <<min_per_stratum, keys, alloc, sorted_keys, i, remaining,
                   remaining_capacity, extra_alloc, leftover, quotas,
                   quota_keys, ret, target_n>>

\* lines 174-186: one iteration of the loop over quotas.items()
DrawStratum ==
    /\ pc = "draw"
    /\ pos <= Len(quota_keys)
    /\ LET key == quota_keys[pos]
           quota == quotas[key]
           stratum_data == StratumRows(stratum_key, key)
       IN  IF SkipStratum(quota) \/ stratum_data = {}
           THEN UNCHANGED selected
           ELSE \E sampled \in Samples(stratum_data,
                                       Min(quota, Cardinality(stratum_data))) :
                    selected' = Concat(selected, sampled)
    /\ pos' = pos + 1
    /\ UNCHANGED <<allocVars, pc, ret, df, stratum_key, target_n, total_target>>

\* lines 188-210: the global top-up, and the return
TopUp ==
    /\ pc = "draw"
    /\ pos > Len(quota_keys)
    /\ IF SelectedLen(selected) < total_target
       THEN LET need == total_target - SelectedLen(selected)
                pool == RemainingPool(df, selected)
            IN  IF pool # {}
                THEN \E additional \in
                            Samples(pool, Min(need, Cardinality(pool))) :
                        selected' = Concat(selected, additional)
                ELSE UNCHANGED selected
       ELSE UNCHANGED selected
    /\ pc' = "done"
    /\ UNCHANGED <<allocVars, ret, df, stratum_key, target_n, total_target, pos>>

\* A call of pick_stores.  Rows are listed in the order of their raw stratum
\* value; row r has the int identifier r, except that the first row may have
\* no identifier and the second may have the str that the int 1 is shown as.
InitPick ==
    /\ \E n \in 0..MaxUnits :
       \E c \in [1..n -> 1..Len(RawValues)] :
       \E nullFirst, strSecond \in BOOLEAN :
          /\ \A a, b \in 1..n : a <= b => c[a] <= c[b]
          /\ df = [r \in 1..n |->
                    [id |-> IF r = 1 /\ nullFirst THEN NaN
                            ELSE IF r = 2 /\ strSecond THEN StrId(1)
                            ELSE IntId(r),
                     attr |-> RawValues[c[r]]]]
          /\ target_n \in 0..(n + 1)
    /\ min_per_stratum \in 0..MaxMin
    /\ total = 0
    /\ capacities = EmptyMap
    /\ cap_order = <<>>
    /\ LocalsInit
    /\ stratum_key = <<>>
    /\ total_target = 0
    /\ selected = <<>>
    /\ pos = 0
    /\ pc = "pick_stores"
    /\ ret = "draw"

\* Every stratum that value_counts lists has at least one row, so the return
\* at lines 42-47 (AllocNoKeys) is not reachable from pick_stores.
PickNext ==
    \/ Prepare
    \/ AllocTrivial
    \/ AllocFallback
    \/ FillStep
    \/ FillReturn
    \/ AllocFloor
    \/ Proportional
    \/ LeftoverStep
    \/ LeftoverExit
    \/ Merge
    \/ DrawStratum
    \/ TopUp

Spec == InitPick /\ [][PickNext]_vars

\* ------------------------------------------------ properties of the allocator
NonNegativeCapacities == \A k \in DOMAIN capacities : capacities[k] >= 0

PositiveCapacities == \A k \in DOMAIN capacities : capacities[k] > 0

\* C1 (capacity bound): with non-negative capacities and min_per_stratum >= 0,
\* no key of the returned map has a quota above its capacity.
CapacityBound ==
    (pc = "done" /\ NonNegativeCapacities /\ min_per_stratum >= 0)
        => \A k \in DOMAIN quotas : quotas[k] <= capacities[k]

\* C1 witness: a stratum smaller than the minimum is filled to its capacity
\* while another stratum keeps headroom.
CapacityBoundWitness ==
    /\ pc = "done" /\ NonNegativeCapacities /\ min_per_stratum >= 0
    /\ \E k \in DOMAIN quotas :
          quotas[k] = capacities[k] /\ capacities[k] < min_per_stratum
    /\ \E k \in DOMAIN quotas : quotas[k] > 0 /\ quotas[k] < capacities[k]

\* C2 (budget bound): with total >= 0, non-negative capacities and
\* min_per_stratum >= 0, the returned quotas never sum to more than total.
BudgetBound ==
    (pc = "done" /\ total >= 0 /\ NonNegativeCapacities /\ min_per_stratum >= 0)
        => SumValues(quotas) <= total

\* C2 witness: the proportional and leftover passes spent the whole budget.
BudgetBoundWitness ==
    /\ pc = "done" /\ total > 0 /\ NonNegativeCapacities /\ min_per_stratum >= 0
    /\ DOMAIN extra_alloc # {}
    /\ i > 0
    /\ SumValues(quotas) = total

\* C3 (shortfall only on exhausted capacity): with total >= 0 and
\* min_per_stratum >= 1, whenever the capacities sum to at least total the
\* returned quotas sum to exactly total.
ExactWhenCapacitySuffices ==
    (/\ pc = "done" /\ total >= 0 /\ min_per_stratum >= 1
     /\ NonNegativeCapacities
     /\ SumValues(capacities) >= total)
        => SumValues(quotas) = total

\* C4 (minimum guarantee): if min_per_stratum = m >= 0, total >= len * m and
\* every capacity is >= m then every returned quota is >= m.
MinimumGuarantee ==
    (/\ pc = "done" /\ min_per_stratum >= 0
     /\ total >= Len(cap_order) * min_per_stratum
     /\ \A k \in DOMAIN capacities : capacities[k] >= min_per_stratum)
        => \A k \in DOMAIN quotas : quotas[k] >= min_per_stratum

\* C4 witness: a minimum of at least 2 was met exactly by one stratum and
\* exceeded by another.
MinimumGuaranteeWitness ==
    /\ pc = "done" /\ min_per_stratum >= 2
    /\ total >= Len(cap_order) * min_per_stratum
    /\ \A k \in DOMAIN capacities : capacities[k] >= min_per_stratum
    /\ \E k \in DOMAIN quotas : quotas[k] = min_per_stratum
    /\ \E k \in DOMAIN quotas : quotas[k] > min_per_stratum

\* C8 as stated (zero-capacity keys are excluded for every total, total <= 0
\* included): no key with capacity <= 0 is in the returned map.
ZeroCapacityExcluded ==
    pc = "done" => \A k \in DOMAIN quotas : capacities[k] > 0

\* C8 amended: when total > 0, no key with capacity <= 0 is in the returned
\* map.
ZeroCapacityExcludedPositiveTotal ==
    (pc = "done" /\ total > 0)
        => \A k \in DOMAIN quotas : capacities[k] > 0

\* C8 witness: a call with total > 0 and a zero-capacity key returned a
\* non-empty map.
ZeroCapacityExcludedWitness ==
    /\ pc = "done" /\ total > 0
    /\ \E k \in DOMAIN capacities : capacities[k] <= 0
    /\ DOMAIN quotas # {}

\* An upper bound on the number of steps the allocator still takes.
StepsLeft ==
    CASE pc = "alloc" -> 2 * Len(cap_order) + 5
      [] pc = "proportional" -> 2 * Len(keys) + 3
      [] pc = "leftover" -> 2 * Len(sorted_keys) - i + 2
      [] pc = "fill" -> 2 * Len(sorted_keys) - i + 1
      [] pc = "merge" -> 1
      [] OTHER -> 0

\* C9 (termination): every call returns and nothing is raised (no division by
\* zero): no step raises, neither round-robin loop runs more than
\* 2 * len(keys) iterations, and every step strictly lowers the natural number
\* StepsLeft, so no call runs forever.
AllocTerminates ==
    /\ [](pc # "raised")
    /\ [](i <= 2 * Len(sorted_keys))
    /\ [](StepsLeft >= 0)
    /\ [][StepsLeft' < StepsLeft]_vars

\* C9 witness: all capacities are 1, every key is saturated before the budget
\* is spent, and the fill loop stopped at its iteration bound.
AllocTerminatesWitness ==
    /\ pc = "done"
    /\ Len(cap_order) >= 2
    /\ \A k \in DOMAIN capacities : capacities[k] = 1
    /\ i = 2 * Len(sorted_keys)
    /\ SumValues(quotas) < total

\* C10 (sufficient budget is exact): with positive capacities, m >= 0 and
\* total >= len(keys) * m the quotas sum to min(total, sum(capacities)), and
\* the leftover loop never ends with budget left while a key has headroom.
SufficientBudgetExact ==
    (/\ PositiveCapacities /\ min_per_stratum >= 0
     /\ total >= Len(cap_order) * min_per_stratum)
        => /\ pc = "done" =>
                SumValues(quotas) = Min(total, SumValues(capacities))
           /\ (pc = "merge" /\ leftover > 0) =>
                \A k \in DOMAIN extra_alloc :
                    extra_alloc[k] = remaining_capacity[k]

\* C10 witness: every exact proportional share is a whole number, yet a float
\* product fell below it; the leftover pass handed out what that left and the
\* quotas sum to total.
SufficientBudgetExactWitness ==
    /\ pc = "done" /\ PositiveCapacities /\ min_per_stratum >= 0
    /\ total >= Len(cap_order) * min_per_stratum
    /\ DOMAIN extra_alloc # {}
    /\ \A k \in DOMAIN remaining_capacity :
          (remaining * remaining_capacity[k])
              % SumValues(remaining_capacity) = 0
    /\ i >= 1 /\ leftover = 0
    /\ SumValues(quotas) = total

\* ------------------------------------------------- properties of pick_stores
\* The identifiers of the rows with an identifier are pairwise distinct.
IdsDistinct ==
    \A r, q \in 1..Len(df) :
        (r # q /\ df[r].id # NaN /\ df[q].id # NaN) => df[r].id # df[q].id

\* They are pairwise distinct also when compared as text.
IdsTextDistinct ==
    \A r, q \in 1..Len(df) :
        (r # q /\ df[r].id # NaN /\ df[q].id # NaN)
            => AsStr(df[r].id) # AsStr(df[q].id)

\* The number of selected rows of stratum k.
SelectedIn(k) == SumOver(selected, StratumRows(stratum_key, k))

\* C5 (selection size): with pairwise distinct identifiers the selection has
\* exactly min(target_n, number of units with an identifier) units.
SelectionSize ==
    (pc = "done" /\ IdsDistinct)
        => SelectedLen(selected) = Min(target_n, Len(df))

\* C6 (no duplicates): with identifiers pairwise distinct also as text, no
\* unit is selected twice and no two selected units share an identifier.
NoDuplicates ==
    (pc = "done" /\ IdsTextDistinct)
        => /\ \A r \in DOMAIN selected : selected[r] <= 1
           /\ \A r, q \in SelectedRows(selected) :
                 r # q => df[r].id # df[q].id

\* C6 witness: the quotas fell short of the target and the top-up added the
\* missing units.
NoDuplicatesWitness ==
    /\ pc = "done" /\ IdsTextDistinct
    /\ SumValues(quotas) < total_target
    /\ SelectedLen(selected) = total_target
    /\ Cardinality(SelectedRows(selected)) >= 2

\* C7 (minimum representation): with m = min_per_stratum >= 1 and
\* min(target_n, population) >= strata * m, the per-stratum draw takes exactly
\* quota[k] units of every stratum k and the final selection has at least
\* min(m, size of k) units of every stratum k.
MinimumRepresentation ==
    (/\ min_per_stratum >= 1
     /\ IdsDistinct
     /\ pc \in {"draw", "done"}
     /\ Min(target_n, Len(df)) >= Cardinality(Range(stratum_key)) * min_per_stratum)
        => /\ (pc = "draw" /\ pos > Len(quota_keys)) =>
                \A k \in Range(stratum_key) : SelectedIn(k) = quotas[k]
           /\ pc = "done" =>
                \A k \in Range(stratum_key) :
                    SelectedIn(k) >= Min(min_per_stratum,
                                         Cardinality(StratumRows(stratum_key, k)))

\* C7 witness: with a minimum of at least 2, a stratum smaller than the
\* minimum is selected whole and another stratum has more than the minimum.
MinimumRepresentationWitness ==
    /\ pc = "done" /\ min_per_stratum >= 2 /\ IdsDistinct
    /\ Min(target_n, Len(df)) >= Cardinality(Range(stratum_key)) * min_per_stratum
    /\ \E k \in Range(stratum_key) :
          /\ Cardinality(StratumRows(stratum_key, k)) < min_per_stratum
          /\ SelectedIn(k) = Cardinality(StratumRows(stratum_key, k))
    /\ \E k \in Range(stratum_key) : SelectedIn(k) > min_per_stratum
====
